---------------------------- MODULE Spec2Model ----------------------------
(***************************************************************************)
(* A model of the raytracing-rs path tracer.                               *)
(*                                                                         *)
(*  - f64 values are modelled by exact rationals <<n, d>> (d > 0, lowest   *)
(*    terms); <<1, 0>> stands for f64::INFINITY.  The inputs of every      *)
(*    specification are chosen so that each square root the code takes is  *)
(*    the root of a perfect square, where f64 arithmetic agrees with the   *)
(*    rationals.                                                           *)
(*  - Vec3 (vec3.rs), Ray (ray.rs), Sphere / HittableList (hittable.rs)    *)
(*    and the materials (material.rs) are pure operators.                  *)
(*  - ray_color (main.rs) is a machine with an explicit call stack.        *)
(*  - the parallel row loop of main (main.rs) is a machine with one        *)
(*    process per pool thread.                                             *)
(***************************************************************************)
EXTENDS Integers, Sequences, FiniteSets, TLC

VARIABLES
    \* ---- geometry calls (hittable.rs)
    hcall,      \* arguments of the last hit call
    hret,       \* what it returned
    \* ---- material calls (material.rs)
    mcall,      \* arguments of the last Metal::new / scatter call
    mret,       \* what it returned
    \* ---- ray_color (main.rs)
    catts,      \* the attenuations of the scene's surfaces, by bounce parity
    cpc,        \* "call": entering ray_color; "return": a call returned; "done"
    cdepth,     \* the depth argument of the innermost call
    cstack,     \* the attenuations of the calls waiting for their recursive call
    cret,       \* the value the last call returned
    ctrace,     \* the hit and scatter outcomes along the path so far
    nscatter,   \* how often a material's scatter was consulted
    csteps,     \* how many steps the computation took
    cacc,       \* history: the running product of the attenuations met so far,
                \* as an accumulation loop over the path would keep it
    \* ---- the parallel row loop of main (main.rs)
    scene,      \* the world rendered
    mpc,        \* main: "render" while the row loop runs, then "saved"
    rows,       \* each scanline j of the parallel iterator: "todo", "running", "done"
    thr,        \* each pool thread: pc, its scanline j, loop index i, row_pixels,
                \* its thread-local generator, and whether it holds the MutexGuard
    locked,     \* whether the image mutex is locked
    img,        \* the RgbaImage inside the mutex
    wlog,       \* for each pixel, who called put_pixel on it (scanline and thread)
    locks,      \* for each scanline, how often its worker locked the mutex and
                \* how many pixels row_pixels held when it did
    \* ---- random_scene (main.rs)
    spc,        \* "ground", "grid" while the loops over a and b run, "heroes", "done"
    sa,         \* the outer loop's a
    sb,         \* the inner loop's b
    srng,       \* random_scene's generator
    sworld      \* world.objects

hvars == <<hcall, hret>>

mvars == <<mcall, mret>>

cvars == <<catts, cpc, cdepth, cstack, cret, ctrace, nscatter, csteps, cacc>>

rvars == <<scene, mpc, rows, thr, locked, img, wlog, locks>>

svars == <<spc, sa, sb, srng, sworld>>

vars == <<hvars, mvars, cvars, rvars, svars>>

---------------------------------------------------------------------------
(* Option<T> *)

None == [some |-> FALSE]

Some(v) == [some |-> TRUE, val |-> v]

---------------------------------------------------------------------------
(* f64 as exact rationals *)

Abs(x) == IF x < 0 THEN -x ELSE x

RECURSIVE GCD(_, _)
GCD(a, b) == IF b = 0 THEN a ELSE GCD(b, a % b)

\* the rational n/d in lowest terms with a positive denominator (d # 0)
Rat(n, d) ==
    LET g == GCD(Abs(n), Abs(d))
        s == IF d < 0 THEN -1 ELSE 1
    IN  <<(s * n) \div g, (s * d) \div g>>

Int2R(n) == <<n, 1>>

Zero == <<0, 1>>

One == <<1, 1>>

\* f64::INFINITY: larger than every finite value under RLt
INFINITY == <<1, 0>>

\* the arithmetic cancels common factors first, to keep the integers small
RAdd(p, q) ==
    LET g == GCD(p[2], q[2])
    IN  Rat(p[1] * (q[2] \div g) + q[1] * (p[2] \div g), (p[2] \div g) * q[2])

RNeg(p) == <<-p[1], p[2]>>

RSub(p, q) == RAdd(p, RNeg(q))

RMul(p, q) ==
    LET g1 == GCD(Abs(p[1]), q[2])
        g2 == GCD(Abs(q[1]), p[2])
    IN  Rat((p[1] \div g1) * (q[1] \div g2), (p[2] \div g2) * (q[2] \div g1))

\* p / q for q # 0
RDiv(p, q) == RMul(p, Rat(q[2], q[1]))

\* p < q; INFINITY (<<1, 0>>) is above every finite value
RLt(p, q) ==
    IF p[2] = 0 \/ q[2] = 0 THEN p[1] * q[2] < q[1] * p[2]
    ELSE LET g == GCD(p[2], q[2])
         IN  p[1] * (q[2] \div g) < q[1] * (p[2] \div g)

RGt(p, q) == RLt(q, p)

RLe(p, q) == ~RLt(q, p)

\* f64::min, f64::max
RMin(p, q) == IF RLt(q, p) THEN q ELSE p

RMax(p, q) == IF RLt(p, q) THEN q ELSE p

\* the integer square root of a perfect square
ISqrt(n) == CHOOSE r \in 0..n : r * r = n

IsSquare(n) == n >= 0 /\ \E r \in 0..n : r * r = n

\* whether f64::sqrt of p is exact
RIsSquare(p) == IsSquare(p[1]) /\ IsSquare(p[2])

\* f64::sqrt on a rational that is the square of a rational
RSqrt(p) == <<ISqrt(p[1]), ISqrt(p[2])>>

\* f64::powi
RECURSIVE RPowi(_, _)
RPowi(p, k) == IF k = 0 THEN One ELSE RMul(p, RPowi(p, k - 1))

---------------------------------------------------------------------------
(* vec3.rs *)

Vec3(x, y, z) == [x |-> x, y |-> y, z |-> z]

\* a vector with integer components
V(x, y, z) == Vec3(Int2R(x), Int2R(y), Int2R(z))

vneg(v) == Vec3(RNeg(v.x), RNeg(v.y), RNeg(v.z))

vadd(u, v) == Vec3(RAdd(u.x, v.x), RAdd(u.y, v.y), RAdd(u.z, v.z))

vsub(u, v) == Vec3(RSub(u.x, v.x), RSub(u.y, v.y), RSub(u.z, v.z))

\* component-wise v * v
vmul(u, v) == Vec3(RMul(u.x, v.x), RMul(u.y, v.y), RMul(u.z, v.z))

\* v * t and t * v
vscale(v, t) == Vec3(RMul(v.x, t), RMul(v.y, t), RMul(v.z, t))

\* v / t multiplies by the inverse of t
vdiv(v, t) ==
    LET inv == RDiv(One, t)
    IN  Vec3(RMul(v.x, inv), RMul(v.y, inv), RMul(v.z, inv))

dot(u, v) == RAdd(RAdd(RMul(u.x, v.x), RMul(u.y, v.y)), RMul(u.z, v.z))

length_squared(v) == RAdd(RAdd(RMul(v.x, v.x), RMul(v.y, v.y)), RMul(v.z, v.z))

length(v) == RSqrt(length_squared(v))

unit_vector(v) == vdiv(v, length(v))

---------------------------------------------------------------------------
(* ray.rs *)

Ray(origin, direction) == [orig |-> origin, dir |-> direction]

at(r, t) == vadd(r.orig, vscale(r.dir, t))

---------------------------------------------------------------------------
(* hittable.rs *)

HitRecord(t, point, normal, material) ==
    [t |-> t, point |-> point, normal |-> normal, material |-> material]

Sphere(center, radius, material) ==
    [kind |-> "sphere", center |-> center, radius |-> radius, material |-> material]

HittableList(objects) == [kind |-> "list", objects |-> objects]

\* the quadratic of Sphere::hit
Quadratic(s, r) ==
    LET oc == vsub(r.orig, s.center)
        a == dot(r.dir, r.dir)
        half_b == dot(oc, r.dir)
        c == RSub(dot(oc, oc), RMul(s.radius, s.radius))
    IN  [a |-> a, half_b |-> half_b, c |-> c,
         discriminant |-> RSub(RMul(half_b, half_b), RMul(a, c))]

Sphere_hit_LargerFirst(s, r, t_min, t_max) ==
    LET q == Quadratic(s, r)
        rec(root) ==
            LET p == at(r, root)
            IN  Some(HitRecord(root, p, vdiv(vsub(p, s.center), s.radius), s.material))
    IN  IF RGt(q.discriminant, Zero)
        THEN LET sqrtd == RSqrt(q.discriminant)
                 root1 == RDiv(RAdd(RNeg(q.half_b), sqrtd), q.a)
                 root0 == RDiv(RSub(RNeg(q.half_b), sqrtd), q.a)
             IN  IF RGt(root1, t_min) /\ RLt(root1, t_max) THEN rec(root1)
                 ELSE IF RGt(root0, t_min) /\ RLt(root0, t_max) THEN rec(root0)
                 ELSE None
        ELSE None

Sphere_hit_Closed(s, r, t_min, t_max) ==
    LET q == Quadratic(s, r)
        rec(root) ==
            LET p == at(r, root)
            IN  Some(HitRecord(root, p, vdiv(vsub(p, s.center), s.radius), s.material))
    IN  IF RGt(q.discriminant, Zero)
        THEN LET sqrtd == RSqrt(q.discriminant)
                 root0 == RDiv(RSub(RNeg(q.half_b), sqrtd), q.a)
                 root1 == RDiv(RAdd(RNeg(q.half_b), sqrtd), q.a)
             IN  IF RLe(t_min, root0) /\ RLe(root0, t_max) THEN rec(root0)
                 ELSE IF RLe(t_min, root1) /\ RLe(root1, t_max) THEN rec(root1)
                 ELSE None
        ELSE None

\* Sphere::hit
Sphere_hit(s, r, t_min, t_max) ==
    LET q == Quadratic(s, r)
        rec(root) ==
            LET p == at(r, root)
            IN  Some(HitRecord(root, p, vdiv(vsub(p, s.center), s.radius), s.material))
    IN  IF RGt(q.discriminant, Zero)
        THEN LET sqrtd == RSqrt(q.discriminant)
                 root0 == RDiv(RSub(RNeg(q.half_b), sqrtd), q.a)
                 root1 == RDiv(RAdd(RNeg(q.half_b), sqrtd), q.a)
             IN  IF RGt(root0, t_min) /\ RLt(root0, t_max) THEN rec(root0)
                 ELSE IF RGt(root1, t_min) /\ RLt(root1, t_max) THEN rec(root1)
                 ELSE None
        ELSE None

RECURSIVE Hittable_hit(_, _, _, _)

\* the loop of HittableList::hit over objects[i..], with the loop's two locals
RECURSIVE ListLoop(_, _, _, _, _, _)
ListLoop(objects, i, r, t_min, closest_so_far, hit_rec) ==
    IF i > Len(objects) THEN hit_rec
    ELSE LET got == Hittable_hit(objects[i], r, t_min, closest_so_far)
         IN  IF got.some
             THEN ListLoop(objects, i + 1, r, t_min, got.val.t, got)
             ELSE ListLoop(objects, i + 1, r, t_min, closest_so_far, hit_rec)

\* the same loop with closest_so_far never tightened
RECURSIVE ListLoop_NoShrink(_, _, _, _, _, _)
ListLoop_NoShrink(objects, i, r, t_min, closest_so_far, hit_rec) ==
    IF i > Len(objects) THEN hit_rec
    ELSE LET got == Hittable_hit(objects[i], r, t_min, closest_so_far)
         IN  IF got.some
             THEN ListLoop_NoShrink(objects, i + 1, r, t_min, closest_so_far, got)
             ELSE ListLoop_NoShrink(objects, i + 1, r, t_min, closest_so_far, hit_rec)

HittableList_hit_NoShrink(l, r, t_min, t_max) ==
    ListLoop_NoShrink(l.objects, 1, r, t_min, t_max, None)

\* HittableList::hit
HittableList_hit(l, r, t_min, t_max) ==
    ListLoop(l.objects, 1, r, t_min, t_max, None)

\* dynamic dispatch of Hittable::hit
Hittable_hit(obj, r, t_min, t_max) ==
    IF obj.kind = "sphere" THEN Sphere_hit(obj, r, t_min, t_max)
    ELSE HittableList_hit(obj, r, t_min, t_max)

---------------------------------------------------------------------------
(* The random generator: a stream of f64 draws in [0,1).  The state of a   *)
(* generator is the finite prefix still to come; past it every draw is 1/2.*)

Half == <<1, 2>>

\* rng.random::<f64>()
random_f64(rng) ==
    IF rng = <<>> THEN [v |-> Half, rng |-> <<>>]
    ELSE [v |-> Head(rng), rng |-> Tail(rng)]

\* rng.random_range(-1.0..1.0)
random_range(rng) ==
    LET d == random_f64(rng)
    IN  [v |-> RSub(RMul(Int2R(2), d.v), One), rng |-> d.rng]

---------------------------------------------------------------------------
(* material.rs *)

\* random_in_unit_sphere: rejection sampling
RECURSIVE random_in_unit_sphere(_)
random_in_unit_sphere(rng) ==
    LET dx == random_range(rng)
        dy == random_range(dx.rng)
        dz == random_range(dy.rng)
        p == Vec3(dx.v, dy.v, dz.v)
    IN  IF RLt(length_squared(p), One) THEN [v |-> p, rng |-> dz.rng]
        ELSE random_in_unit_sphere(dz.rng)

reflect(v, n) == vsub(v, vscale(n, RMul(Int2R(2), dot(v, n))))

\* the discriminant of refract
RefractDiscriminant(v, n, ni_over_nt) ==
    LET dt == dot(unit_vector(v), n)
    IN  RSub(One, RMul(RMul(ni_over_nt, ni_over_nt), RSub(One, RMul(dt, dt))))

refract(v, n, ni_over_nt) ==
    LET uv == unit_vector(v)
        dt == dot(uv, n)
        discriminant == RefractDiscriminant(v, n, ni_over_nt)
    IN  IF RGt(discriminant, Zero)
        THEN Some(vsub(vscale(vsub(uv, vscale(n, dt)), ni_over_nt),
                       vscale(n, RSqrt(discriminant))))
        ELSE None

schlick(cosine, ref_idx) ==
    LET r == RDiv(RSub(One, ref_idx), RAdd(One, ref_idx))
        r0 == RMul(r, r)
    IN  RAdd(r0, RMul(RSub(One, r0), RPowi(RSub(One, cosine), 5)))

Lambertian_new(albedo) == [kind |-> "lambertian", albedo |-> albedo]

Metal_new_NoFloor(albedo, fuzziness) ==
    [kind |-> "metal", albedo |-> albedo,
     fuzz |-> IF RLt(fuzziness, One) THEN fuzziness ELSE One]

\* Metal::new
Metal_new(albedo, fuzziness) ==
    [kind |-> "metal", albedo |-> albedo,
     fuzz |-> IF RLt(fuzziness, One) THEN RMax(fuzziness, Zero) ELSE One]

Dielectric_new(ref_idx) == [kind |-> "dielectric", ref_idx |-> ref_idx]

\* a scatter call's result and the generator it leaves
Scattered(res, rng) == [res |-> res, rng |-> rng]

\* a scatter call that panicked (Option::unwrap on None)
Panic(rng) == [res |-> [some |-> FALSE, panic |-> TRUE], rng |-> rng]

Lambertian_scatter(m, ray_in, rec, rng) ==
    LET rnd == random_in_unit_sphere(rng)
        target == vadd(vadd(rec.point, rec.normal), rnd.v)
        scattered == Ray(rec.point, vsub(target, rec.point))
    IN  Scattered(Some(<<m.albedo, scattered>>), rnd.rng)

Metal_scatter(m, ray_in, rec, rng) ==
    LET reflected == reflect(unit_vector(ray_in.dir), rec.normal)
        rnd == random_in_unit_sphere(rng)
        scattered == Ray(rec.point, vadd(reflected, vscale(rnd.v, m.fuzz)))
    IN  IF RGt(dot(scattered.dir, rec.normal), Zero)
        THEN Scattered(Some(<<m.albedo, scattered>>), rnd.rng)
        ELSE Scattered(None, rnd.rng)

ReflectProb_NoForce(refracted, cosine, ref_idx) ==
    RMax(RMin(schlick(cosine, ref_idx), One), Zero)

\* the reflection probability Dielectric::scatter computes
ReflectProb(refracted, cosine, ref_idx) ==
    IF refracted.some THEN RMax(RMin(schlick(cosine, ref_idx), One), Zero)
    ELSE One

\* the (outward_normal, ni_over_nt, cosine) triple of Dielectric::scatter
DielectricSide(m, ray_in, rec) ==
    LET d == dot(ray_in.dir, rec.normal)
    IN  IF RGt(d, Zero)
        THEN [outward_normal |-> vneg(rec.normal), ni_over_nt |-> m.ref_idx,
              cosine |-> RDiv(RMul(m.ref_idx, d), length(ray_in.dir))]
        ELSE [outward_normal |-> rec.normal, ni_over_nt |-> RDiv(One, m.ref_idx),
              cosine |-> RDiv(RNeg(d), length(ray_in.dir))]

Dielectric_scatter(m, ray_in, rec, rng) ==
    LET attenuation == Vec3(One, One, One)
        reflected == reflect(ray_in.dir, rec.normal)
        side == DielectricSide(m, ray_in, rec)
        refracted == refract(ray_in.dir, side.outward_normal, side.ni_over_nt)
        reflect_prob == ReflectProb(refracted, side.cosine, m.ref_idx)
        draw == random_f64(rng)
    IN  IF RLt(draw.v, reflect_prob)
        THEN Scattered(Some(<<attenuation, Ray(rec.point, reflected)>>), draw.rng)
        ELSE IF refracted.some
             THEN Scattered(Some(<<attenuation, Ray(rec.point, refracted.val)>>), draw.rng)
             ELSE Panic(draw.rng)

\* dynamic dispatch of Material::scatter
Material_scatter(m, ray_in, rec, rng) ==
    IF m.kind = "lambertian" THEN Lambertian_scatter(m, ray_in, rec, rng)
    ELSE IF m.kind = "metal" THEN Metal_scatter(m, ray_in, rec, rng)
    ELSE Dielectric_scatter(m, ray_in, rec, rng)

---------------------------------------------------------------------------
(* Geometry calls: Sphere::hit and HittableList::hit applied to drawn      *)
(* inputs.                                                                 *)

\* the longest object list drawn
MaxObjs == 3

Grey == Lambertian_new(Vec3(Half, Half, Half))

Glass == Dielectric_new(<<3, 2>>)

Mirror == Metal_new(Vec3(<<7, 10>>, <<3, 5>>, Half), Zero)

SphA == Sphere(V(0, 0, 0), Int2R(5), Grey)

SphB == Sphere(V(2, 0, 0), Int2R(5), Glass)

SphD == Sphere(V(0, 0, 0), Int2R(3), Mirror)

SphE == Sphere(V(20, 0, 0), Int2R(5), Mirror)

HitSpheres == {SphA, SphB, SphD, SphE}

HitRays ==
    {Ray(V(ox, oy, 0), V(dx, 0, 0)) : ox \in {-10, 0}, oy \in {0, 3, 5}, dx \in {1, 2, -1}}

HitTMins == {Zero, <<1, 1000>>, Int2R(6)}

HitTMaxs == {INFINITY, Int2R(6), Int2R(14)}

\* the rays and intervals the list calls are drawn from
ListRays == {Ray(V(ox, oy, 0), V(1, 0, 0)) : ox \in {-10, 0}, oy \in {0, 3}}

ListTMins == {<<1, 1000>>, Int2R(6)}

ListTMaxs == {INFINITY, Int2R(14)}

SeqsUpTo(S, n) == UNION {[1..k -> S] : k \in 0..n}

\* lists with a list among their members
NestedLists ==
    {<<HittableList(<<SphB, SphD>>), SphA>>,
     <<SphA, HittableList(<<SphB, SphD>>)>>,
     <<HittableList(<<>>)>>,
     <<HittableList(<<SphE, HittableList(<<SphD>>)>>), SphB>>}

HitCalls ==
    {[fn |-> "Sphere::hit", obj |-> s, r |-> r, t_min |-> lo, t_max |-> hi] :
        s \in HitSpheres, r \in HitRays, lo \in HitTMins, hi \in HitTMaxs}
    \cup
    {[fn |-> "HittableList::hit", obj |-> HittableList(os), r |-> r,
      t_min |-> lo, t_max |-> hi] :
        os \in SeqsUpTo(HitSpheres, MaxObjs) \cup NestedLists, r \in ListRays,
        lo \in ListTMins, hi \in ListTMaxs}

Pending == [done |-> FALSE]

Returned(v) == [done |-> TRUE, ret |-> v]

HitIdle == hcall = [fn |-> "none"] /\ hret = Pending

MatIdle == mcall = [fn |-> "none"] /\ mret = Pending

RenderIdle ==
    /\ scene = <<>>
    /\ mpc = "idle" /\ rows = <<>> /\ thr = <<>> /\ locked = FALSE
    /\ img = <<>> /\ wlog = <<>> /\ locks = <<>>

SceneIdle ==
    /\ spc = "idle" /\ sa = 0 /\ sb = 0 /\ srng = <<>> /\ sworld = <<>>

ColorIdle ==
    /\ catts = <<>> /\ cpc = "idle" /\ cdepth = 0 /\ cstack = <<>>
    /\ cret = <<>> /\ ctrace = <<>> /\ nscatter = 0 /\ csteps = 0
    /\ cacc = <<>>

InitHit ==
    /\ hcall \in HitCalls /\ hret = Pending
    /\ MatIdle /\ ColorIdle /\ RenderIdle /\ SceneIdle

CallSphereHit ==
    /\ hcall.fn = "Sphere::hit" /\ ~hret.done
    /\ hret' = Returned(Sphere_hit(hcall.obj, hcall.r, hcall.t_min, hcall.t_max))
    /\ UNCHANGED <<hcall, mvars, cvars, rvars, svars>>

CallListHit ==
    /\ hcall.fn = "HittableList::hit" /\ ~hret.done
    /\ hret' = Returned(HittableList_hit(hcall.obj, hcall.r, hcall.t_min, hcall.t_max))
    /\ UNCHANGED <<hcall, mvars, cvars, rvars, svars>>

NextHit == CallSphereHit \/ CallListHit

SpecHit == InitHit /\ [][NextHit]_vars

---------------------------------------------------------------------------
(* Material calls: Metal::new followed by Metal::scatter, and              *)
(* Dielectric::scatter and Lambertian::scatter, applied to drawn inputs.   *)

MatNormals == {V(0, 1, 0), Vec3(<<-4, 5>>, <<3, 5>>, Zero)}

MatDirs ==
    {V(1, 0, 0), V(0, -1, 0), V(0, 1, 0), V(0, -2, 0), V(3, -4, 0), V(4, -3, 0),
     V(3, 4, 0), V(4, 3, 0), V(-4, 3, 0)}

\* hit records on the unit-normal surface points the calls are made at
MatRecs == {HitRecord(Int2R(6), V(-4, 3, 0), n, Grey) : n \in MatNormals}

\* the hit records of the dielectric calls: axis-aligned unit normals
GlassRecs == {HitRecord(Int2R(6), V(0, 5, 0), n, Glass) : n \in {V(0, 1, 0), V(0, -1, 0), V(1, 0, 0)}}

MatFuzz == {<<-3, 10>>, Zero, Half, One, <<3, 2>>}

MatRefIdx == {<<3, 2>>, <<4, 3>>, <<5, 3>>, <<5, 4>>, Int2R(2)}

\* generator prefixes for the unit-sphere sampler: the zero vector, a
\* perturbation against each normal, and a first triple that is rejected
SphereDraws ==
    {<<>>,
     <<Half, <<1, 20>>, Half>>,
     <<<<43, 50>>, <<23, 100>>, Half>>,
     <<Zero, Zero, Zero, Half, <<1, 20>>, Half>>}

\* generator prefixes for the single draw of Dielectric::scatter
ProbDraws == {<<Zero>>, <<<<1, 10>>>>, <<Half>>, <<<<9, 10>>>>, <<>>}

\* whether every square root Dielectric::scatter takes on the input is exact
\* and the discriminant is away from 0: at the critical angle the rounding
\* of unit_vector decides the sign the guard of refract reads
DielectricExact(m, ray_in, rec) ==
    /\ RIsSquare(length_squared(ray_in.dir))
    /\ LET side == DielectricSide(m, ray_in, rec)
           d == RefractDiscriminant(ray_in.dir, side.outward_normal, side.ni_over_nt)
       IN  RLt(d, Zero) \/ (RGt(d, Zero) /\ RIsSquare(d))

\* whether the scattered ray of Metal::scatter is away from grazing: on a
\* direction at right angles to the normal the rounding of unit_vector
\* decides the sign the guard reads
MetalExact(m, ray_in, rec, rng) ==
    LET reflected == reflect(unit_vector(ray_in.dir), rec.normal)
        rnd == random_in_unit_sphere(rng)
    IN  dot(vadd(reflected, vscale(rnd.v, m.fuzz)), rec.normal) # Zero

MatCalls ==
    {c \in {[fn |-> "Metal::scatter", albedo |-> Vec3(<<7, 10>>, <<3, 5>>, Half),
             fuzziness |-> f, ray_in |-> Ray(V(-10, 3, 0), d), rec |-> rec, rng |-> g] :
                f \in MatFuzz, d \in MatDirs, rec \in MatRecs, g \in SphereDraws} :
        MetalExact(Metal_new(c.albedo, c.fuzziness), c.ray_in, c.rec, c.rng)}
    \cup
    {c \in {[fn |-> "Dielectric::scatter", ref_idx |-> n,
             ray_in |-> Ray(V(-10, 3, 0), d), rec |-> rec, rng |-> g] :
                n \in MatRefIdx, d \in MatDirs, rec \in GlassRecs, g \in ProbDraws} :
        DielectricExact(Dielectric_new(c.ref_idx), c.ray_in, c.rec)}
    \cup
    {[fn |-> "Lambertian::scatter", albedo |-> Vec3(Half, <<1, 5>>, <<1, 10>>),
      ray_in |-> Ray(V(-10, 3, 0), d), rec |-> rec, rng |-> g] :
        d \in MatDirs, rec \in MatRecs, g \in SphereDraws}

MatReturned(m, v) == [done |-> TRUE, mat |-> m, ret |-> v]

InitMat ==
    /\ mcall \in MatCalls /\ mret = Pending
    /\ HitIdle /\ ColorIdle /\ RenderIdle /\ SceneIdle

CallMetal ==
    /\ mcall.fn = "Metal::scatter" /\ ~mret.done
    /\ LET m == Metal_new(mcall.albedo, mcall.fuzziness)
       IN  mret' = MatReturned(m, Metal_scatter(m, mcall.ray_in, mcall.rec, mcall.rng))
    /\ UNCHANGED <<mcall, hvars, cvars, rvars, svars>>

CallDielectric ==
    /\ mcall.fn = "Dielectric::scatter" /\ ~mret.done
    /\ LET m == Dielectric_new(mcall.ref_idx)
       IN  mret' = MatReturned(m, Dielectric_scatter(m, mcall.ray_in, mcall.rec, mcall.rng))
    /\ UNCHANGED <<mcall, hvars, cvars, rvars, svars>>

CallLambertian ==
    /\ mcall.fn = "Lambertian::scatter" /\ ~mret.done
    /\ LET m == Lambertian_new(mcall.albedo)
       IN  mret' = MatReturned(m, Lambertian_scatter(m, mcall.ray_in, mcall.rec, mcall.rng))
    /\ UNCHANGED <<mcall, hvars, cvars, rvars, svars>>

NextMat == CallMetal \/ CallDielectric \/ CallLambertian

SpecMat == InitMat /\ [][NextMat]_vars

---------------------------------------------------------------------------
(* ray_color (main.rs).  The recursion is run with an explicit stack.  What *)
(* world.hit and the material's scatter answer for the ray of each call is  *)
(* an input: a miss (with the direction of the escaping ray), a hit that is *)
(* absorbed, or a hit that scatters with an attenuation.                    *)
(*                                                                          *)
(* A colour channel is m * 2^-e with m a rational of odd numerator and      *)
(* denominator (or 0): attenuations are powers of two, whose f64 products   *)
(* are exact over any path of max_depth bounces.                            *)

max_depth == 50

Ch(m, e) == [m |-> m, e |-> e]

\* the channel of value r * 2^-e
RECURSIVE ChNorm(_, _)
ChNorm(r, e) ==
    IF r[1] = 0 THEN Ch(Zero, 0)
    ELSE IF r[1] % 2 = 0 THEN ChNorm(<<r[1] \div 2, r[2]>>, e - 1)
    ELSE IF r[2] % 2 = 0 THEN ChNorm(<<r[1], r[2] \div 2>>, e + 1)
    ELSE Ch(r, e)

ChMul(a, b) == ChNorm(RMul(a.m, b.m), a.e + b.e)

\* a Color from a Vec3 of rationals
Color(v) == Vec3(ChNorm(v.x, 0), ChNorm(v.y, 0), ChNorm(v.z, 0))

\* attenuation * colour, component-wise
cmul(u, v) == Vec3(ChMul(u.x, v.x), ChMul(u.y, v.y), ChMul(u.z, v.z))

WHITE == V(1, 1, 1)

BLACK == V(0, 0, 0)

BLUE == Vec3(Half, <<7, 10>>, One)

\* the background gradient of a ray that hits nothing
Gradient(ray) ==
    LET unit_dir == unit_vector(ray.dir)
        t == RMul(Half, RAdd(unit_dir.y, One))
    IN  vadd(vscale(WHITE, RSub(One, t)), vscale(BLUE, t))

\* the same, as a Color of channels
Background(ray) == Color(Gradient(ray))

\* the depth test that opens ray_color
DepthExhausted_OffByOne(depth) == depth > max_depth

DepthExhausted(depth) == depth >= max_depth

\* what the returning call makes of its recursive call's colour
Attenuate_Dropped(attenuation, colour) == colour

Attenuate(attenuation, colour) == cmul(attenuation, colour)

\* the attenuations a surface may have: powers of two and zero
Attenuations ==
    {Vec3(Half, <<1, 4>>, One), Vec3(One, Half, Zero)}

\* the directions an escaping ray may have
EscapeDirs == {V(0, 1, 0), V(1, 0, 0), V(3, 4, 0)}

\* the attenuation of the surface hit by the call at the given depth
AttenuationAt(depth) == Color(catts[(depth % 2) + 1])

InitColor ==
    /\ catts \in Attenuations \X Attenuations
    /\ cpc = "call" /\ cdepth = 0 /\ cstack = <<>> /\ cret = <<>>
    /\ ctrace = <<>> /\ nscatter = 0 /\ csteps = 0
    /\ cacc = Color(WHITE)
    /\ HitIdle /\ MatIdle /\ RenderIdle /\ SceneIdle

\* depth >= 50: return BLACK
RayColorCutoff ==
    /\ cpc = "call" /\ DepthExhausted(cdepth)
    /\ cret' = Color(BLACK)
    /\ cpc' = "return"
    /\ csteps' = csteps + 1
    /\ UNCHANGED <<catts, cdepth, cstack, ctrace, nscatter, cacc, hvars, mvars, rvars, svars>>

\* a hit whose material scatters: recurse with depth + 1
RayColorScatter ==
    /\ cpc = "call" /\ ~DepthExhausted(cdepth)
    /\ cstack' = Append(cstack, AttenuationAt(cdepth))
    /\ ctrace' = Append(ctrace, [kind |-> "scatter", attenuation |-> AttenuationAt(cdepth)])
    /\ cdepth' = cdepth + 1
    /\ nscatter' = nscatter + 1
    /\ csteps' = csteps + 1
    /\ cacc' = cmul(cacc, AttenuationAt(cdepth))
    /\ UNCHANGED <<catts, cpc, cret, hvars, mvars, rvars, svars>>

\* a hit whose material absorbs the ray: return BLACK
RayColorAbsorb ==
    /\ cpc = "call" /\ ~DepthExhausted(cdepth)
    /\ ctrace' = Append(ctrace, [kind |-> "absorb"])
    /\ nscatter' = nscatter + 1
    /\ cret' = Color(BLACK)
    /\ cpc' = "return"
    /\ csteps' = csteps + 1
    /\ UNCHANGED <<catts, cdepth, cstack, cacc, hvars, mvars, rvars, svars>>

\* no hit: return the background gradient
RayColorMiss ==
    /\ cpc = "call" /\ ~DepthExhausted(cdepth)
    /\ \E d \in EscapeDirs :
        /\ ctrace' = Append(ctrace, [kind |-> "miss", dir |-> d])
        /\ cret' = Background(Ray(V(0, 0, 0), d))
    /\ cpc' = "return"
    /\ csteps' = csteps + 1
    /\ UNCHANGED <<catts, cdepth, cstack, nscatter, cacc, hvars, mvars, rvars, svars>>

\* the recursive call returned: attenuation * its colour
RayColorReturn ==
    /\ cpc = "return" /\ cstack # <<>>
    /\ cret' = Attenuate(cstack[Len(cstack)], cret)
    /\ cstack' = SubSeq(cstack, 1, Len(cstack) - 1)
    /\ cdepth' = cdepth - 1
    /\ csteps' = csteps + 1
    /\ UNCHANGED <<catts, cpc, ctrace, nscatter, cacc, hvars, mvars, rvars, svars>>

\* the outermost call returned
RayColorDone ==
    /\ cpc = "return" /\ cstack = <<>>
    /\ cpc' = "done"
    /\ csteps' = csteps + 1
    /\ UNCHANGED <<catts, cdepth, cstack, cret, ctrace, nscatter, cacc, hvars, mvars, rvars, svars>>

NextColor ==
    \/ RayColorCutoff
    \/ RayColorScatter
    \/ RayColorAbsorb
    \/ RayColorMiss
    \/ RayColorReturn
    \/ RayColorDone

SpecColor == InitColor /\ [][NextColor]_vars

---------------------------------------------------------------------------
(* The parallel row loop of main (main.rs).  rayon runs the closure once    *)
(* for each scanline j of 0..num_y, on whichever pool thread takes it; a    *)
(* thread runs one closure at a time.  The scene and the camera are fixed,  *)
(* so a pixel is a function of its coordinates and of the draws its samples *)
(* take from the generator; it is kept as the tuple of what it is computed  *)
(* from: for each sample the jittered (u, v) and the lens point.            *)

\* image width, image height, samples per pixel, pool threads
NumX == 2

NumY == 2

NumSamples == 1

NumThreads == 2

\* how many draws of a thread's generator differ from thread to thread
SeedLen == 14

Threads == 1..NumThreads

Scanlines == 0..(NumY - 1)

Pixels == (0..(NumX - 1)) \X (0..(NumY - 1))

\* the state of the generator thread t starts with.  A sample takes seven
\* draws (u, v, two for the lens, three for the scatter of the one surface
\* its ray meets); the sixth moves the scattered ray up or down by 3/4 or
\* leaves it, the fifth and seventh leave it, so that every scattered ray
\* has a length f64 represents
Seed(t) ==
    [k \in 1..SeedLen |->
        IF (k - 1) % 7 = 5
        THEN (<< <<1, 8>>, Half, <<7, 8>> >>)[((t + k) % 3) + 1]
        ELSE IF (k - 1) % 7 \in {4, 6} THEN Half
        ELSE Rat((t + k * k) % 4, 4)]

\* camera.rs: random_in_unit_disk
RECURSIVE random_in_unit_disk(_)
random_in_unit_disk(rng) ==
    LET dx == random_range(rng)
        dy == random_range(dx.rng)
        p == Vec3(dx.v, dy.v, Zero)
    IN  IF RLt(dot(p, p), One) THEN [v |-> p, rng |-> dy.rng]
        ELSE random_in_unit_disk(dy.rng)

\* the Camera that Camera::new gives for a pinhole at the origin that looks
\* down the z axis with a field of view of 0 degrees: every ray leaves the
\* origin along (0, 0, -1).  (The camera of main has no representation in
\* exact arithmetic.)
AxisCamera ==
    [origin |-> V(0, 0, 0), lower_left_corner |-> V(0, 0, -1),
     horizontal |-> V(0, 0, 0), vertical |-> V(0, 0, 0),
     u |-> V(1, 0, 0), v |-> V(0, 1, 0), lens_radius |-> Zero]

\* Camera::get_ray
get_ray(camera, s, t, rng) ==
    LET disk == random_in_unit_disk(rng)
        rd == vscale(disk.v, camera.lens_radius)
        offset == vadd(vscale(camera.u, rd.x), vscale(camera.v, rd.y))
    IN  [v |-> Ray(vadd(camera.origin, offset),
                   vsub(vsub(vadd(vadd(camera.lower_left_corner,
                                       vscale(camera.horizontal, s)),
                                  vscale(camera.vertical, t)),
                             camera.origin),
                        offset)),
         rng |-> disk.rng]

\* the worlds rendered: a sphere of radius 5 in front of the camera, grey
\* diffuse in one and a mirror in the other
Worlds ==
    {HittableList(<<Sphere(V(0, 0, -6), Int2R(5), Grey)>>),
     HittableList(<<Sphere(V(0, 0, -6), Int2R(5), Mirror)>>)}

\* F of the value of e: a statement that runs once e is computed
Then(e, F(_)) == CHOOSE result \in {F(x) : x \in {e}} : TRUE

\* ray_color: the colour and the generator it leaves
RECURSIVE ray_color(_, _, _, _)
ray_color(r, world, depth, rng) ==
    IF DepthExhausted(depth) THEN [v |-> BLACK, rng |-> rng]
    ELSE Then(Hittable_hit(world, r, <<1, 1000>>, INFINITY), LAMBDA hit :
            IF hit.some
            THEN Then(Material_scatter(hit.val.material, r, hit.val, rng), LAMBDA sc :
                    IF sc.res.some
                    THEN Then(ray_color(sc.res.val[2], world, depth + 1, sc.rng),
                              LAMBDA rest : [v |-> vmul(sc.res.val[1], rest.v),
                                             rng |-> rest.rng])
                    ELSE [v |-> BLACK, rng |-> sc.rng])
            ELSE [v |-> Gradient(r), rng |-> rng])

\* whether a / b <= c / d, for a, c >= 0 and b, d > 0, by continued fractions
RECURSIVE FracLe(_, _, _, _)
FracLe(a, b, c, d) ==
    IF a \div b # c \div d THEN a \div b < c \div d
    ELSE IF a % b = 0 THEN TRUE
    ELSE IF c % d = 0 THEN FALSE
    ELSE FracLe(d, c % d, b, a % b)

\* the largest byte k of lo..hi with k <= 255.99 * sqrt(x), that is
\* (100 k / 25599)^2 <= x, by bisection
RECURSIVE LargestByte(_, _, _)
LargestByte(lo, hi, x) ==
    IF lo = hi THEN lo
    ELSE LET mid == (lo + hi + 1) \div 2
         IN  IF FracLe(10000 * mid * mid, 25599 * 25599, x[1], x[2])
             THEN LargestByte(mid, hi, x)
             ELSE LargestByte(lo, mid - 1, x)

\* clamp_u8(x.sqrt()) for x >= 0: (255.99 * sqrt(x)) as u8, with sqrt(x)
\* clamped to 0.999
clamp_u8_sqrt(x) ==
    IF ~RLt(x, <<998001, 1000000>>) THEN 255 ELSE LargestByte(0, 255, x)

\* one sample of pixel (i, j): u, v, the camera's ray and its colour
Sample(i, j, rng, camera, world) ==
    LET du == random_f64(rng)
        dv == random_f64(du.rng)
        u == RDiv(RAdd(Int2R(i), du.v), Int2R(NumX))
        v == RDiv(RAdd(Int2R(j), dv.v), Int2R(NumY))
    IN  Then(get_ray(camera, u, v, dv.rng), LAMBDA r :
            ray_color(r.v, world, 0, r.rng))

\* the sample loop of pixel (i, j), from sample s on: col += ray_color(..)
RECURSIVE SampleLoop(_, _, _, _, _, _, _)
SampleLoop(i, j, s, col, rng, camera, world) ==
    IF s >= NumSamples THEN [v |-> col, rng |-> rng]
    ELSE Then(Sample(i, j, rng, camera, world), LAMBDA one :
            Then(vadd(col, one.v), LAMBDA sum :
                SampleLoop(i, j, s + 1, sum, one.rng, camera, world)))

\* the pixel pushed to row_pixels for column i of scanline j: the average
\* of the samples, its square root per channel, quantised
RenderPixel(i, j, rng, camera, world) ==
    Then(SampleLoop(i, j, 0, V(0, 0, 0), rng, camera, world), LAMBDA sum :
        Then(vdiv(sum.v, Int2R(NumSamples)), LAMBDA col :
            [v |-> <<clamp_u8_sqrt(col.x), clamp_u8_sqrt(col.y), clamp_u8_sqrt(col.z), 255>>,
             rng |-> sum.rng]))

\* the image row of scanline j
ImageRow_NoFlip(j) == j

ImageRow(j) == NumY - 1 - j

\* whether img.lock() can return
MutexFree_Always == TRUE

MutexFree == ~locked

IdleThread(rng) ==
    [pc |-> "idle", j |-> 0, i |-> 0, row_pixels |-> <<>>, rng |-> rng, guard |-> FALSE]

\* RgbaImage::new: every pixel zero
BlankPixel == <<0, 0, 0, 0>>

Init ==
    /\ scene \in Worlds
    /\ mpc = "render"
    /\ rows = [j \in Scanlines |-> "todo"]
    /\ thr = [t \in Threads |-> IdleThread(Seed(t))]
    /\ locked = FALSE
    /\ img = [p \in Pixels |-> BlankPixel]
    /\ wlog = [p \in Pixels |-> <<>>]
    /\ locks = [j \in Scanlines |-> [count |-> 0, computed |-> 0]]
    /\ HitIdle /\ MatIdle /\ ColorIdle /\ SceneIdle

\* a pool thread takes scanline j: rand::rng() hands out the thread's generator
RowStart(t, j) ==
    /\ mpc = "render" /\ thr[t].pc = "idle" /\ rows[j] = "todo"
    /\ rows' = [rows EXCEPT ![j] = "running"]
    /\ thr' = [thr EXCEPT ![t] = [@ EXCEPT !.pc = "compute", !.j = j, !.i = 0,
                                            !.row_pixels = <<>>]]
    /\ UNCHANGED <<scene, mpc, locked, img, wlog, locks, hvars, mvars, cvars, svars>>

\* one pass of the loop over i: sample, average, quantise, push
RowCompute(t) ==
    /\ thr[t].pc = "compute" /\ thr[t].i < NumX
    /\ LET px == RenderPixel(thr[t].i, thr[t].j, thr[t].rng, AxisCamera, scene)
       IN  thr' = [thr EXCEPT ![t] = [@ EXCEPT !.row_pixels = Append(@, px.v),
                                                !.rng = px.rng, !.i = @ + 1]]
    /\ UNCHANGED <<scene, mpc, rows, locked, img, wlog, locks, hvars, mvars, cvars, svars>>

\* img.lock().unwrap() after the loop over i
RowLock(t) ==
    /\ thr[t].pc = "compute" /\ thr[t].i >= NumX
    /\ MutexFree
    /\ locked' = TRUE
    /\ locks' = [locks EXCEPT ![thr[t].j] =
                    [count |-> @.count + 1, computed |-> Len(thr[t].row_pixels)]]
    /\ thr' = [thr EXCEPT ![t] = [@ EXCEPT !.pc = "write", !.i = 0, !.guard = TRUE]]
    /\ UNCHANGED <<scene, mpc, rows, img, wlog, hvars, mvars, cvars, svars>>

\* img.put_pixel(i, row, px) for the next pixel of row_pixels
RowPutPixel(t) ==
    /\ thr[t].pc = "write" /\ thr[t].i < Len(thr[t].row_pixels)
    /\ LET p == <<thr[t].i, ImageRow(thr[t].j)>>
       IN  /\ img' = [img EXCEPT ![p] = thr[t].row_pixels[thr[t].i + 1]]
           /\ wlog' = [wlog EXCEPT ![p] = Append(@, [j |-> thr[t].j, t |-> t,
                                                     guard |-> thr[t].guard])]
    /\ thr' = [thr EXCEPT ![t] = [@ EXCEPT !.i = @ + 1]]
    /\ UNCHANGED <<scene, mpc, rows, locked, locks, hvars, mvars, cvars, svars>>

\* the end of the block: the MutexGuard is dropped
RowUnlock(t) ==
    /\ thr[t].pc = "write" /\ thr[t].i >= Len(thr[t].row_pixels)
    /\ locked' = FALSE
    /\ thr' = [thr EXCEPT ![t] = [@ EXCEPT !.pc = "print", !.guard = FALSE]]
    /\ UNCHANGED <<scene, mpc, rows, img, wlog, locks, hvars, mvars, cvars, svars>>

\* println!("Scanline ..."): the closure returns
RowPrint(t) ==
    /\ thr[t].pc = "print"
    /\ rows' = [rows EXCEPT ![thr[t].j] = "done"]
    /\ thr' = [thr EXCEPT ![t] = IdleThread(@.rng)]
    /\ UNCHANGED <<scene, mpc, locked, img, wlog, locks, hvars, mvars, cvars, svars>>

\* for_each returned: img.into_inner() and img.save()
MainSave ==
    /\ mpc = "render" /\ \A j \in Scanlines : rows[j] = "done"
    /\ mpc' = "saved"
    /\ UNCHANGED <<scene, rows, thr, locked, img, wlog, locks, hvars, mvars, cvars, svars>>

Next ==
    \/ \E t \in Threads, j \in Scanlines : RowStart(t, j)
    \/ \E t \in Threads : RowCompute(t)
    \/ \E t \in Threads : RowLock(t)
    \/ \E t \in Threads : RowPutPixel(t)
    \/ \E t \in Threads : RowUnlock(t)
    \/ \E t \in Threads : RowPrint(t)
    \/ MainSave

Spec == Init /\ [][Next]_vars

---------------------------------------------------------------------------
(* main.rs: random_scene.                                                   *)
(*                                                                          *)
(* The generator is rand::rng(); its draws are a finite prefix picked at    *)
(* the start, after which every draw is 1/2.                                *)

\* for a in -11..11, for b in -11..11
GridLo == -11

GridHi == 11

NumSeeds == 3

SceneSeedLen == 40

SceneSeeds == 1..NumSeeds

\* the draws of one run of the generator, in twentieths
SceneSeed(s) == [k \in 1..SceneSeedLen |-> Rat((s * k + k * k) % 20, 20)]

\* length() > r, as its square: sqrt is increasing
length_gt(v, r) == RGt(length_squared(v), RMul(r, r))

\* the one position the grid loop tests a centre against
AvoidedPoint == Vec3(Int2R(4), <<1, 5>>, Zero)

AvoidOnlyMetalHero(center) == length_gt(vsub(center, AvoidedPoint), <<9, 10>>)

\* the large sphere that stands for the ground
Ground == Sphere(Vec3(Zero, Int2R(-1000), Zero), Int2R(1000), Grey)

\* the three large spheres added after the grid
HeroSpheres ==
    << Sphere(V(0, 1, 0), One, Dielectric_new(<<3, 2>>)),
       Sphere(V(-4, 1, 0), One, Lambertian_new(Vec3(<<2, 5>>, <<1, 5>>, <<1, 10>>))),
       Sphere(V(4, 1, 0), One, Metal_new(Vec3(<<7, 10>>, <<3, 5>>, Half), Zero)) >>

\* the diffuse branch: albedo of three products of two draws
DiffuseMat(rng) ==
    LET r1 == random_f64(rng)
        r2 == random_f64(r1.rng)
        r3 == random_f64(r2.rng)
        r4 == random_f64(r3.rng)
        r5 == random_f64(r4.rng)
        r6 == random_f64(r5.rng)
    IN  [mat |-> Lambertian_new(Vec3(RMul(r1.v, r2.v), RMul(r3.v, r4.v), RMul(r5.v, r6.v))),
         rng |-> r6.rng]

\* the metal branch: albedo 0.5 * (1 + draw) per channel, fuzz 0.1
MetalMat(rng) ==
    LET r1 == random_f64(rng)
        r2 == random_f64(r1.rng)
        r3 == random_f64(r2.rng)
    IN  [mat |-> Metal_new(Vec3(RMul(Half, RAdd(One, r1.v)),
                                RMul(Half, RAdd(One, r2.v)),
                                RMul(Half, RAdd(One, r3.v))), <<1, 10>>),
         rng |-> r3.rng]

\* the body of the inner loop: the objects it adds and the generator it leaves
GridCell(a, b, rng) ==
    LET choose_mat == random_f64(rng)
        dx == random_f64(choose_mat.rng)
        dz == random_f64(dx.rng)
        center == Vec3(RAdd(Int2R(a), RMul(<<9, 10>>, dx.v)),
                       <<1, 5>>,
                       RAdd(Int2R(b), RMul(<<9, 10>>, dz.v)))
    IN  IF AvoidOnlyMetalHero(center)
        THEN IF RLt(choose_mat.v, <<4, 5>>)
             THEN LET m == DiffuseMat(dz.rng)
                  IN  [added |-> <<Sphere(center, <<1, 5>>, m.mat)>>, rng |-> m.rng]
             ELSE IF RLt(choose_mat.v, <<19, 20>>)
             THEN LET m == MetalMat(dz.rng)
                  IN  [added |-> <<Sphere(center, <<1, 5>>, m.mat)>>, rng |-> m.rng]
             ELSE [added |-> <<Sphere(center, <<1, 5>>, Dielectric_new(<<3, 2>>))>>,
                   rng |-> dz.rng]
        ELSE [added |-> <<>>, rng |-> dz.rng]

InitScene ==
    /\ spc = "ground" /\ sa = GridLo /\ sb = GridLo
    /\ \E s \in SceneSeeds : srng = SceneSeed(s)
    /\ sworld = <<>>
    /\ HitIdle /\ MatIdle /\ ColorIdle /\ RenderIdle

\* world.add(ground)
SceneGround ==
    /\ spc = "ground"
    /\ sworld' = Append(sworld, Ground)
    /\ spc' = "grid"
    /\ UNCHANGED <<sa, sb, srng, hvars, mvars, cvars, rvars>>

\* one pass of the inner loop over b, and the step to the next a after the last
SceneGridCell ==
    /\ spc = "grid"
    /\ LET cell == GridCell(sa, sb, srng)
       IN  /\ sworld' = sworld \o cell.added
           /\ srng' = cell.rng
    /\ IF sb + 1 < GridHi
       THEN sb' = sb + 1 /\ UNCHANGED <<sa, spc>>
       ELSE /\ sb' = GridLo
            /\ sa' = sa + 1
            /\ spc' = IF sa + 1 < GridHi THEN "grid" ELSE "heroes"
    /\ UNCHANGED <<hvars, mvars, cvars, rvars>>

\* the three large spheres are added and the world is returned
SceneHeroes ==
    /\ spc = "heroes"
    /\ sworld' = sworld \o HeroSpheres
    /\ spc' = "done"
    /\ UNCHANGED <<sa, sb, srng, hvars, mvars, cvars, rvars>>

NextScene ==
    \/ SceneGround
    \/ SceneGridCell
    \/ SceneHeroes

SpecScene == InitScene /\ [][NextScene]_vars

---------------------------------------------------------------------------
(* Claims about the geometry calls *)

ListCallDone == hret.done /\ hcall.fn = "HittableList::hit"

SphereCallDone == hret.done /\ hcall.fn = "Sphere::hit"

\* what each member of the called list returns on the whole interval
MemberHit(i) == Hittable_hit(hcall.obj.objects[i], hcall.r, hcall.t_min, hcall.t_max)

MemberHits ==
    {h \in {MemberHit(i) : i \in 1..Len(hcall.obj.objects)} : h.some}

\* the called list's objects in every order
Reorderings ==
    LET os == hcall.obj.objects
        n == Len(os)
    IN  {[i \in 1..n |-> os[p[i]]] : p \in Permutations(1..n)}

\* C3: HittableList.hit returns nothing exactly when no member has a hit
\* inside (t_min, t_max); otherwise the returned t is the minimum of the
\* members' hit parameters, and it is the same for every ordering of the list.
C3_ClosestHit ==
    ListCallDone =>
        LET ret == hret.ret
        IN  /\ ret.some <=> MemberHits # {}
            /\ ret.some =>
                /\ \E h \in MemberHits : h.val.t = ret.val.t
                /\ \A h \in MemberHits : RLe(ret.val.t, h.val.t)
            /\ \A os \in Reorderings :
                LET other == HittableList_hit(HittableList(os), hcall.r,
                                              hcall.t_min, hcall.t_max)
                IN  /\ other.some = ret.some
                    /\ ret.some => other.val.t = ret.val.t

\* a list whose earlier member is hit farther away than a later one, and the
\* call returned the nearer hit
C3_Witness ==
    /\ ListCallDone
    /\ hret.ret.some
    /\ \E i, j \in 1..Len(hcall.obj.objects) :
        /\ i < j
        /\ MemberHit(i).some /\ MemberHit(j).some
        /\ RLt(MemberHit(j).val.t, MemberHit(i).val.t)
        /\ hret.ret.val.t = MemberHit(j).val.t

\* C6: every record returned by Sphere.hit or HittableList.hit has
\* t_min < t < t_max strictly.
C6_OpenInterval ==
    (hret.done /\ hret.ret.some) =>
        /\ RLt(hcall.t_min, hret.ret.val.t)
        /\ RLt(hret.ret.val.t, hcall.t_max)

\* the two roots of the called sphere's quadratic (discriminant > 0)
CallRoots ==
    LET q == Quadratic(hcall.obj, hcall.r)
        sqrtd == RSqrt(q.discriminant)
    IN  <<RDiv(RSub(RNeg(q.half_b), sqrtd), q.a), RDiv(RAdd(RNeg(q.half_b), sqrtd), q.a)>>

CallDiscriminant == Quadratic(hcall.obj, hcall.r).discriminant

InsideCall(t) == RLt(hcall.t_min, t) /\ RLt(t, hcall.t_max)

\* a sphere call one of whose roots is exactly t_min or t_max, which was not
\* returned
C6_Witness ==
    /\ SphereCallDone
    /\ RGt(CallDiscriminant, Zero)
    /\ \E i \in 1..2 : CallRoots[i] = hcall.t_min \/ CallRoots[i] = hcall.t_max
    /\ hret.ret.some

\* C9: Sphere.hit returns the smaller root whenever it is strictly inside
\* (t_min, t_max), the larger root only when the smaller is outside and the
\* larger strictly inside, and nothing whenever the discriminant is <= 0.
C9_RootOrder ==
    SphereCallDone =>
        IF RLe(CallDiscriminant, Zero) THEN hret.ret = None
        ELSE /\ InsideCall(CallRoots[1]) =>
                    hret.ret.some /\ hret.ret.val.t = CallRoots[1]
             /\ (hret.ret.some /\ hret.ret.val.t = CallRoots[2]) =>
                    ~InsideCall(CallRoots[1]) /\ InsideCall(CallRoots[2])

\* a tangent ray (discriminant exactly 0) that was reported as a miss
C9_Witness ==
    /\ SphereCallDone
    /\ CallDiscriminant = Zero
    /\ hret.ret = None

---------------------------------------------------------------------------
(* Claims about the material calls *)

MetalCallDone == mret.done /\ mcall.fn = "Metal::scatter"

DielectricCallDone == mret.done /\ mcall.fn = "Dielectric::scatter"

\* what a metal of exactly the given fuzz returns on the call's inputs
MetalOfFuzz(fuzz) ==
    Metal_scatter([kind |-> "metal", albedo |-> mcall.albedo, fuzz |-> fuzz],
                  mcall.ray_in, mcall.rec, mcall.rng)

\* C8: Metal::new stores fuzz clamped to [0,1] (0 when f < 0, f when
\* 0 <= f < 1, 1 when f >= 1), so a metal built with fuzz >= 1 (1.5)
\* scatters as one of fuzz 1 and a metal built with fuzz < 0 (-0.3) as one of
\* fuzz 0, on the same ray, hit record and random draws.
C8_FuzzClamp ==
    MetalCallDone =>
        LET f == mcall.fuzziness
        IN  /\ RLt(f, Zero) => mret.mat.fuzz = Zero /\ mret.ret = MetalOfFuzz(Zero)
            /\ (RLe(Zero, f) /\ RLt(f, One)) => mret.mat.fuzz = f
            /\ RLe(One, f) => mret.mat.fuzz = One /\ mret.ret = MetalOfFuzz(One)

\* a metal requested with fuzz 1.5 scattered a ray under a non-zero
\* perturbation, which one of fuzz 1.5 would have absorbed
C8_Witness ==
    /\ MetalCallDone
    /\ mcall.fuzziness = <<3, 2>>
    /\ random_in_unit_sphere(mcall.rng).v # V(0, 0, 0)
    /\ mret.ret.res.some
    /\ ~MetalOfFuzz(<<3, 2>>).res.some

\* whether refract yields no direction on the dielectric call's inputs
CallRefractNone ==
    LET side == DielectricSide(mret.mat, mcall.ray_in, mcall.rec)
    IN  ~refract(mcall.ray_in.dir, side.outward_normal, side.ni_over_nt).some

\* C7: Dielectric.scatter always returns a scattered ray with attenuation
\* (1,1,1); whenever refract yields no direction it returns the reflected ray
\* whatever the random draw, and never unwraps the missing refraction.
C7_TotalInternalReflection ==
    DielectricCallDone =>
        /\ mret.ret.res.some
        /\ mret.ret.res.val[1] = V(1, 1, 1)
        /\ CallRefractNone =>
            mret.ret.res.val[2] =
                Ray(mcall.rec.point, reflect(mcall.ray_in.dir, mcall.rec.normal))

\* total internal reflection with a draw above the Schlick reflectance: only
\* the forced probability 1 makes the ray reflect
C7_Witness ==
    /\ DielectricCallDone
    /\ CallRefractNone
    /\ LET side == DielectricSide(mret.mat, mcall.ray_in, mcall.rec)
       IN  RLt(schlick(side.cosine, mcall.ref_idx), random_f64(mcall.rng).v)
    /\ mret.ret.res.some

---------------------------------------------------------------------------
(* Claims about ray_color *)

\* the steps of the longest computation: max_depth calls that scatter, the
\* call that is cut off, as many returns, and the final step
MaxSteps == 2 * max_depth + 2

\* C4: ray_color started at depth 0 always terminates: the depth argument
\* never exceeds 50, scatter is consulted at most 50 times along a path, a
\* path that reaches depth 50 returns black, and no computation is longer
\* than 2 * 50 + 2 steps or stops before it is done.
C4_DepthCutoff ==
    /\ cdepth <= 50
    /\ nscatter <= 50
    /\ csteps <= MaxSteps
    /\ cpc # "done" => ENABLED NextColor
    /\ (cpc = "done" /\ Len(ctrace) = 50 /\ ctrace[50].kind = "scatter") =>
            cret = Color(BLACK)

\* a path of 50 scattering bounces that was cut off and returned black
C4_Witness ==
    /\ cpc = "done"
    /\ nscatter = 50
    /\ \A k \in 1..50 : ctrace[k].kind = "scatter"
    /\ cret = Color(BLACK)

\* what an accumulation loop over the path returns: black when the last
\* outcome is an absorbed bounce or the 50th scattering bounce, and otherwise
\* the accumulated product times the background of the escaping ray
LoopResult ==
    LET last == ctrace[Len(ctrace)]
    IN  IF last.kind = "absorb" THEN Color(BLACK)
        ELSE IF last.kind = "scatter" THEN Color(BLACK)
        ELSE cmul(cacc, Background(Ray(V(0, 0, 0), last.dir)))

\* C10: the recursive ray_color equals the iterative accumulation loop: the
\* result is black if a bounce is absorbed or the depth reaches 50, and
\* otherwise the product of the attenuations of all bounces times the
\* background colour of the escaping ray.
C10_IterativeEquivalence ==
    cpc = "done" =>
        /\ cret = LoopResult
        /\ ctrace[Len(ctrace)].kind = "scatter" => Len(ctrace) = max_depth
        /\ (ctrace[Len(ctrace)].kind = "absorb"
            \/ (Len(ctrace) = max_depth /\ ctrace[max_depth].kind = "scatter")) =>
                cret = Color(BLACK)
        /\ \A k \in 1..(Len(ctrace) - 1) : ctrace[k].kind = "scatter"

\* a path of several attenuating bounces that escaped, with a colour that is
\* neither black nor the background's
C10_Witness ==
    /\ cpc = "done"
    /\ Len(ctrace) >= 4
    /\ ctrace[Len(ctrace)].kind = "miss"
    /\ cret # Color(BLACK)
    /\ cret # Background(Ray(V(0, 0, 0), ctrace[Len(ctrace)].dir))

---------------------------------------------------------------------------
(* Claims about the parallel row loop *)

\* C1: for every interleaving of the row workers no pixel is ever written
\* twice, the pixels of image row r are written only by the worker of
\* scanline num_y - 1 - r, and when the image is saved every pixel has been
\* written exactly once.
C1_RowPartition ==
    /\ \A p \in DOMAIN wlog :
        /\ Len(wlog[p]) <= 1
        /\ \A k \in 1..Len(wlog[p]) : wlog[p][k].j = NumY - 1 - p[2]
    /\ mpc = "saved" => \A p \in Pixels : Len(wlog[p]) = 1

\* a saved image whose rows were written by different threads, the top row
\* by the worker of the last scanline
C1_Witness ==
    /\ mpc = "saved"
    /\ \E p, q \in Pixels : wlog[p][1].t # wlog[q][1].t
    /\ wlog[<<0, 0>>][1].j = NumY - 1

\* C2: a row worker locks the image mutex once, after its row_pixels holds
\* all num_x pixels; every put_pixel happens while the writing worker holds
\* the guard, and at most one worker holds it at any time.
C2_LockDiscipline ==
    /\ \A j \in DOMAIN locks :
        /\ locks[j].count <= 1
        /\ locks[j].count = 1 => locks[j].computed = NumX
        /\ rows[j] = "done" => locks[j].count = 1
    /\ \A p \in DOMAIN wlog : \A k \in 1..Len(wlog[p]) :
        /\ wlog[p][k].guard
        /\ locks[wlog[p][k].j].count = 1
    /\ Cardinality({t \in DOMAIN thr : thr[t].guard}) <= 1
    /\ locked <=> \E t \in DOMAIN thr : thr[t].guard

\* one worker is in the middle of copying its row while another, its row
\* complete, waits for the mutex
C2_Witness ==
    \E t1, t2 \in Threads :
        /\ t1 # t2
        /\ thr[t1].pc = "write" /\ thr[t1].i = 1
        /\ thr[t2].pc = "compute" /\ thr[t2].i = NumX
        /\ Len(thr[t2].row_pixels) = NumX

\* the loop over i of one scanline, run on its own
RECURSIVE RowLoop(_, _, _, _)
RowLoop(i, j, pixels, rng) ==
    IF i >= NumX THEN [v |-> pixels, rng |-> rng]
    ELSE Then(RenderPixel(i, j, rng, AxisCamera, scene), LAMBDA px :
            RowLoop(i + 1, j, Append(pixels, px.v), px.rng))

\* the image of the render that runs the scanlines from j on, in order, on
\* one thread
RECURSIVE InOrderImage(_, _, _)
InOrderImage(j, rng, image) ==
    IF j >= NumY THEN image
    ELSE Then(RowLoop(0, j, <<>>, rng), LAMBDA row :
            InOrderImage(j + 1, row.rng,
                [p \in Pixels |-> IF p[2] = NumY - 1 - j THEN row.v[p[1] + 1]
                                  ELSE image[p]]))

\* C5: with the generators' seeds and the sample count fixed, every render
\* of the scene saves the same image whatever the scheduling of rows onto
\* threads: the image of the render that runs all scanlines in order on the
\* first thread.
C5_Deterministic ==
    mpc = "saved" => img = InOrderImage(0, Seed(1), [p \in Pixels |-> BlankPixel])

---------------------------------------------------------------------------
(* Claims about random_scene *)

\* where the three large spheres stand, at the height of the small ones
HeroSpots == {Vec3(Zero, <<1, 5>>, Zero),
              Vec3(Int2R(-4), <<1, 5>>, Zero),
              Vec3(Int2R(4), <<1, 5>>, Zero)}

SmallSpheres == {k \in 1..Len(sworld) : sworld[k].radius = <<1, 5>>}

\* C11: no small sphere of the world has its centre within 0.9 of any of
\* the three hero positions (x = 0, x = -4, x = 4) at height 0.2.
C11_AvoidsHeroes ==
    \A k \in SmallSpheres : \A h \in HeroSpots :
        length_gt(vsub(sworld[k].center, h), <<9, 10>>)

==========================================================================
